---- MODULE Spec2Model ----
(***************************************************************************)
(* ResponseTemplate (src/src/response_template.rs): the builder of the     *)
(* response a mock server returns.  A template is the record               *)
(*   [status_code, headers, body]                                          *)
(* built by new, transformed by append_header / insert_header / set_body   *)
(* and turned into a Response by generate_response.                        *)
(*                                                                         *)
(* Text is a sequence of code points, a byte vector a sequence of 0..255.  *)
(* Option<T> is a sequence of length 0 (None) or 1 (Some).                 *)
(* A conversion returns [ok, val, err]; err is the Debug text of the error.*)
(***************************************************************************)
EXTENDS Integers, Sequences, FiniteSets, TLC

VARIABLES
    pc,           \* "start" before new, "built" while a template is held, "panicked"
    status_code,  \* the template's fields
    headers,
    body,
    response,     \* Some(the Response) when the last call was generate_response
    panic_msg,    \* the panic message, once panicked
    lastCall,     \* the last call and its arguments
    old,          \* the template and the response as they were before the last call
    status_arg,   \* Some(the status-like given to new)
    body_arg,     \* Some(the body-like given to the most recent set_body)
    calls,        \* builder calls made after new
    n_gen         \* generate_response calls made since the last builder call

vars == <<pc, status_code, headers, body, response, panic_msg, lastCall, old,
          status_arg, body_arg, calls, n_gen>>

\* Longest chain of builder calls after new, and longest run of
\* generate_response calls on one template.
MaxCalls == 4
MaxGen == 2

-----------------------------------------------------------------------------
(* Inputs of the builder calls.                                            *)

\* status-likes (u16): 200, 404, 500 are StatusCode variants; 0 and 999 are not
StatusLikes == {200, 404, 500, 0, 999}

\* header-name-likes (&str): "A", "a", "B", "b", and the non-ASCII "e-acute"
NameLikes == {<<65>>, <<97>>, <<66>>, <<98>>, <<233>>}

\* header-value-likes (&str): "x", "Y", and the non-ASCII "e-acute"
ValueLikes == {<<120>>, <<89>>, <<233>>}

\* body-likes: a &str, a &str with a two-byte code point, a Vec<u8>, and a
\* caller-defined type whose TryInto<Vec<u8>> fails with Err(())
BodyLikes ==
    { [kind |-> "str",    data |-> <<104, 105>>],
      [kind |-> "str",    data |-> <<233>>],
      [kind |-> "bytes",  data |-> <<0, 255>>],
      [kind |-> "custom", data |-> <<>>] }

-----------------------------------------------------------------------------
(* The conversions of the http_types crate and of std that the builder    *)
(* calls through TryInto.  Their code is outside this file; the error      *)
(* texts are the crate's, and none of them quotes the rejected input.      *)

Ok(v) == [ok |-> TRUE, val |-> v, err |-> ""]
Err(e) == [ok |-> FALSE, val |-> <<>>, err |-> e]

is_ascii(s) == \A i \in DOMAIN s : s[i] < 128

to_ascii_lowercase(s) ==
    [i \in DOMAIN s |-> IF s[i] \in 65..90 THEN s[i] + 32 ELSE s[i]]

\* StatusCode: TryFrom<u16>, restricted to the variants the inputs reach
StatusCodeTryFrom(n) ==
    CASE n = 200 -> Ok("Ok")
      [] n = 404 -> Ok("NotFound")
      [] n = 500 -> Ok("InternalServerError")
      [] OTHER   -> Err("Invalid status code")

\* StatusCode as u16
StatusCodeAsU16(sc) ==
    CASE sc = "Ok" -> 200
      [] sc = "NotFound" -> 404
      [] sc = "InternalServerError" -> 500
      [] OTHER -> 0

\* mutant: the name is stored as given, not lowercased
HeaderNameTryFrom_case_sensitive(s) ==
    IF is_ascii(s) THEN Ok(s)
    ELSE Err("String slice should be valid ASCII")

\* HeaderName: validated ASCII, stored lowercased
HeaderNameTryFrom(s) ==
    IF is_ascii(s) THEN Ok(to_ascii_lowercase(s))
    ELSE Err("String slice should be valid ASCII")

\* HeaderValue: validated ASCII, stored as given
HeaderValueTryFrom(s) ==
    IF is_ascii(s) THEN Ok(s)
    ELSE Err("String slice should be valid ASCII")

\* UTF-8 encoding of one code point below 2048
utf8(c) == IF c < 128 THEN <<c>> ELSE <<192 + (c \div 64), 128 + (c % 64)>>

RECURSIVE as_bytes(_)
as_bytes(s) == IF s = <<>> THEN <<>> ELSE utf8(Head(s)) \o as_bytes(Tail(s))

\* Vec<u8>: From<&str> copies the UTF-8 bytes, From<Vec<u8>> is the vector
VecU8TryFrom(b) ==
    CASE b.kind = "str"   -> Ok(as_bytes(b.data))
      [] b.kind = "bytes" -> Ok(b.data)
      [] OTHER            -> Err("()")

-----------------------------------------------------------------------------
(* http_types::Response, as far as generate_response uses it.              *)

Response_new(status) == [status |-> status, headers |-> <<>>, body |-> <<>>]

Response_insert_header(resp, name, values) ==
    [resp EXCEPT !.headers =
        [k \in (DOMAIN resp.headers) \cup {name} |->
            IF k = name THEN values ELSE resp.headers[k]]]

Response_set_body(resp, bytes) == [resp EXCEPT !.body = bytes]

-----------------------------------------------------------------------------
(* ResponseTemplate.                                                       *)

NoTemplate == [status_code |-> "NoStatus", headers |-> <<>>, body |-> <<>>]

Self == [status_code |-> status_code, headers |-> headers, body |-> body]

\* Result::expect(msg): the panic message is msg, then the error's Debug
expect(msg, r) == <<msg, r.err>>

Returned(self) == [panic |-> <<>>, self |-> self]
Panicked(msg, self) == [panic |-> msg, self |-> self]

HashMap_insert(map, key, v) ==
    [k \in (DOMAIN map) \cup {key} |-> IF k = key THEN v ELSE map[k]]

new(s) ==
    LET r == StatusCodeTryFrom(s) IN
    IF ~r.ok THEN Panicked(expect("Failed to convert into status code.", r), NoTemplate)
    ELSE Returned([status_code |-> r.val, headers |-> <<>>, body |-> <<>>])


\* mutant: the value replaces the list of a present name
append_header_overwrite(self, key, value) ==
    LET k == HeaderNameTryFrom(key)
        v == HeaderValueTryFrom(value)
    IN  IF ~k.ok THEN Panicked(expect("Failed to convert into header name.", k), self)
        ELSE IF ~v.ok THEN Panicked(expect("Failed to convert into header value.", v), self)
        ELSE Returned([self EXCEPT !.headers = HashMap_insert(self.headers, k.val, <<v.val>>)])

\* mutant: the entry of the name is created before the value is converted
append_header_entry_first(self, key, value) ==
    LET k == HeaderNameTryFrom(key)
        v == HeaderValueTryFrom(value)
        entered == IF ~k.ok \/ k.val \in DOMAIN self.headers THEN self
                   ELSE [self EXCEPT !.headers = HashMap_insert(self.headers, k.val, <<>>)]
    IN  IF ~k.ok THEN Panicked(expect("Failed to convert into header name.", k), self)
        ELSE IF ~v.ok THEN Panicked(expect("Failed to convert into header value.", v), entered)
        ELSE Returned([entered EXCEPT !.headers[k.val] = Append(@, v.val)])

\* mutant: an absent name is inserted with an empty list
append_header_no_push(self, key, value) ==
    LET k == HeaderNameTryFrom(key)
        v == HeaderValueTryFrom(value)
    IN  IF ~k.ok THEN Panicked(expect("Failed to convert into header name.", k), self)
        ELSE IF ~v.ok THEN Panicked(expect("Failed to convert into header value.", v), self)
        ELSE Returned([self EXCEPT !.headers =
                IF k.val \in DOMAIN self.headers
                THEN [self.headers EXCEPT ![k.val] = Append(@, v.val)]
                ELSE HashMap_insert(self.headers, k.val, <<>>)])

append_header(self, key, value) ==
    LET k == HeaderNameTryFrom(key)
        v == HeaderValueTryFrom(value)
    IN  IF ~k.ok THEN Panicked(expect("Failed to convert into header name.", k), self)
        ELSE IF ~v.ok THEN Panicked(expect("Failed to convert into header value.", v), self)
        ELSE Returned([self EXCEPT !.headers =
                IF k.val \in DOMAIN self.headers
                THEN [self.headers EXCEPT ![k.val] = Append(@, v.val)]
                ELSE HashMap_insert(self.headers, k.val, <<v.val>>)])

\* mutant: the value is added to the list of a present name
insert_header_accumulate(self, key, value) ==
    LET k == HeaderNameTryFrom(key)
        v == HeaderValueTryFrom(value)
    IN  IF ~k.ok THEN Panicked(expect("Failed to convert into header name.", k), self)
        ELSE IF ~v.ok THEN Panicked(expect("Failed to convert into header value.", v), self)
        ELSE Returned([self EXCEPT !.headers =
                IF k.val \in DOMAIN self.headers
                THEN [self.headers EXCEPT ![k.val] = Append(@, v.val)]
                ELSE HashMap_insert(self.headers, k.val, <<v.val>>)])

\* mutant: a rejected value is reported with the text of the name conversion
insert_header_wrong_message(self, key, value) ==
    LET k == HeaderNameTryFrom(key)
        v == HeaderValueTryFrom(value)
    IN  IF ~k.ok THEN Panicked(expect("Failed to convert into header name.", k), self)
        ELSE IF ~v.ok THEN Panicked(expect("Failed to convert into header name.", v), self)
        ELSE Returned([self EXCEPT !.headers = HashMap_insert(self.headers, k.val, <<v.val>>)])

insert_header(self, key, value) ==
    LET k == HeaderNameTryFrom(key)
        v == HeaderValueTryFrom(value)
    IN  IF ~k.ok THEN Panicked(expect("Failed to convert into header name.", k), self)
        ELSE IF ~v.ok THEN Panicked(expect("Failed to convert into header value.", v), self)
        ELSE Returned([self EXCEPT !.headers = HashMap_insert(self.headers, k.val, <<v.val>>)])

\* mutant: a body already set is kept
set_body_keep_first(self, b) ==
    LET r == VecU8TryFrom(b) IN
    IF ~r.ok THEN Panicked(expect("Failed to convert into body.", r), self)
    ELSE Returned([self EXCEPT !.body = IF @ = <<>> THEN <<r.val>> ELSE @])

\* mutant: the template is rebuilt with a fresh header map
set_body_rebuild(self, b) ==
    LET r == VecU8TryFrom(b) IN
    IF ~r.ok THEN Panicked(expect("Failed to convert into body.", r), self)
    ELSE Returned([status_code |-> self.status_code, headers |-> <<>>, body |-> <<r.val>>])

set_body(self, b) ==
    LET r == VecU8TryFrom(b) IN
    IF ~r.ok THEN Panicked(expect("Failed to convert into body.", r), self)
    ELSE Returned([self EXCEPT !.body = <<r.val>>])

\* the loop over &self.headers, in the order the HashMap iterates
RECURSIVE AddHeaders(_, _, _)
AddHeaders(resp, map, order) ==
    IF order = <<>> THEN resp
    ELSE AddHeaders(Response_insert_header(resp, Head(order), map[Head(order)]),
                    map, Tail(order))

\* mutant: only the first value of each header is passed on
generate_response_first_value(self, order) ==
    LET firsts == [k \in DOMAIN self.headers |-> <<self.headers[k][1]>>]
        withHeaders == AddHeaders(Response_new(self.status_code), firsts, order)
    IN  [response |-> IF self.body # <<>>
                      THEN Response_set_body(withHeaders, self.body[1])
                      ELSE withHeaders,
         self |-> self]

\* mutant: the body is moved out of the template into the response
generate_response_take_body(self, order) ==
    LET withHeaders == AddHeaders(Response_new(self.status_code), self.headers, order)
    IN  [response |-> IF self.body # <<>>
                      THEN Response_set_body(withHeaders, self.body[1])
                      ELSE withHeaders,
         self |-> [self EXCEPT !.body = <<>>]]

\* generate_response(&self): the response, and self as the call leaves it
generate_response(self, order) ==
    LET withHeaders == AddHeaders(Response_new(self.status_code), self.headers, order)
    IN  [response |-> IF self.body # <<>>
                      THEN Response_set_body(withHeaders, self.body[1])
                      ELSE withHeaders,
         self |-> self]

\* the orders in which a HashMap with these keys may iterate
IterationOrders(keys) ==
    {o \in [1..Cardinality(keys) -> keys] :
        \A i, j \in 1..Cardinality(keys) : i # j => o[i] # o[j]}

-----------------------------------------------------------------------------
(* The program: one chain  new(..).op(..).op(..)  with generate_response   *)
(* called on the template between or after the builder calls.              *)

NoBody == [kind |-> "none", data |-> <<>>]

Call(op, s, k, v, b) == [op |-> op, status |-> s, key |-> k, value |-> v, body |-> b]

Snapshot == [self |-> Self, response |-> response]

Init ==
    /\ pc = "start"
    /\ status_code = NoTemplate.status_code
    /\ headers = NoTemplate.headers
    /\ body = NoTemplate.body
    /\ response = <<>>
    /\ panic_msg = <<>>
    /\ lastCall = Call("none", 0, <<>>, <<>>, NoBody)
    /\ old = [self |-> NoTemplate, response |-> <<>>]
    /\ status_arg = <<>>
    /\ body_arg = <<>>
    /\ calls = 0
    /\ n_gen = 0

\* the outcome r of a builder call: the returned template, or the panic
Outcome(r, call) ==
    /\ lastCall' = call
    /\ old' = Snapshot
    /\ pc' = IF r.panic = <<>> THEN "built" ELSE "panicked"
    /\ panic_msg' = r.panic
    /\ status_code' = r.self.status_code
    /\ headers' = r.self.headers
    /\ body' = r.self.body
    /\ response' = <<>>
    /\ n_gen' = 0

New ==
    /\ pc = "start"
    /\ \E s \in StatusLikes :
          /\ Outcome(new(s), Call("new", s, <<>>, <<>>, NoBody))
          /\ status_arg' = <<s>>
    /\ UNCHANGED <<body_arg, calls>>

AppendHeader ==
    /\ pc = "built"
    /\ calls < MaxCalls
    /\ \E key \in NameLikes, value \in ValueLikes :
          Outcome(append_header(Self, key, value),
                  Call("append_header", 0, key, value, NoBody))
    /\ calls' = calls + 1
    /\ UNCHANGED <<status_arg, body_arg>>

InsertHeader ==
    /\ pc = "built"
    /\ calls < MaxCalls
    /\ \E key \in NameLikes, value \in ValueLikes :
          Outcome(insert_header(Self, key, value),
                  Call("insert_header", 0, key, value, NoBody))
    /\ calls' = calls + 1
    /\ UNCHANGED <<status_arg, body_arg>>

SetBody ==
    /\ pc = "built"
    /\ calls < MaxCalls
    /\ \E b \in BodyLikes :
          /\ Outcome(set_body(Self, b), Call("set_body", 0, <<>>, <<>>, b))
          /\ body_arg' = <<b>>
    /\ calls' = calls + 1
    /\ UNCHANGED status_arg

GenerateResponse ==
    /\ pc = "built"
    /\ n_gen < MaxGen
    /\ \E order \in IterationOrders(DOMAIN headers) :
          LET r == generate_response(Self, order) IN
          /\ response' = <<r.response>>
          /\ status_code' = r.self.status_code
          /\ headers' = r.self.headers
          /\ body' = r.self.body
    /\ lastCall' = Call("generate_response", 0, <<>>, <<>>, NoBody)
    /\ old' = Snapshot
    /\ n_gen' = n_gen + 1
    /\ UNCHANGED <<pc, panic_msg, status_arg, body_arg, calls>>

Next == New \/ AppendHeader \/ InsertHeader \/ SetBody \/ GenerateResponse

Spec == Init /\ [][Next]_vars

-----------------------------------------------------------------------------
(* Properties.                                                             *)

HeaderOps == {"append_header", "insert_header"}

\* the header name a returned header call was about
CallName == HeaderNameTryFrom(lastCall.key).val

OldHeaders == old.self.headers

\* C1: append_header(name, v) makes name map to [v] when name was absent and
\* to the old list followed by v when it was present; every other header
\* name keeps the list it had.
C1_AppendHeader ==
    (lastCall.op = "append_header" /\ pc = "built") =>
        /\ DOMAIN headers = (DOMAIN OldHeaders) \cup {CallName}
        /\ headers[CallName] =
              IF CallName \in DOMAIN OldHeaders
              THEN OldHeaders[CallName] \o <<lastCall.value>>
              ELSE <<lastCall.value>>
        /\ \A k \in (DOMAIN OldHeaders) \ {CallName} : headers[k] = OldHeaders[k]

\* an append onto a list of two values (one of them equal to the new value),
\* with another header present
C1_Witness ==
    /\ lastCall.op = "append_header" /\ pc = "built"
    /\ CallName \in DOMAIN OldHeaders
    /\ Len(OldHeaders[CallName]) = 2
    /\ OldHeaders[CallName][1] = lastCall.value
    /\ OldHeaders[CallName][2] # lastCall.value
    /\ (DOMAIN OldHeaders) \ {CallName} # {}

\* C2: insert_header(name, v) makes name map to exactly [v] whatever list it
\* had; every other header name keeps the list it had.
C2_InsertHeader ==
    (lastCall.op = "insert_header" /\ pc = "built") =>
        /\ DOMAIN headers = (DOMAIN OldHeaders) \cup {CallName}
        /\ headers[CallName] = <<lastCall.value>>
        /\ \A k \in (DOMAIN OldHeaders) \ {CallName} : headers[k] = OldHeaders[k]

\* an insert over a list of two values, with another header present
C2_Witness ==
    /\ lastCall.op = "insert_header" /\ pc = "built"
    /\ CallName \in DOMAIN OldHeaders
    /\ Len(OldHeaders[CallName]) = 2
    /\ (DOMAIN OldHeaders) \ {CallName} # {}

\* C3: the generated response has the template's status, carries for every
\* header name of the template all its values in the stored order, and has
\* the stored body, or an empty body when none was set.
C3_GenerateResponse ==
    lastCall.op = "generate_response" =>
        /\ Len(response) = 1
        /\ response[1].status = old.self.status_code
        /\ \A k \in DOMAIN OldHeaders :
              /\ k \in DOMAIN response[1].headers
              /\ response[1].headers[k] = OldHeaders[k]
        /\ response[1].body = IF old.self.body = <<>> THEN <<>> ELSE old.self.body[1]

\* a response generated from two headers, one with a repeated value, and a body
C3_Witness ==
    /\ lastCall.op = "generate_response"
    /\ Cardinality(DOMAIN OldHeaders) = 2
    /\ \E k \in DOMAIN OldHeaders :
          Len(OldHeaders[k]) = 2 /\ OldHeaders[k][1] = OldHeaders[k][2]
    /\ old.self.body = <<(<<195, 169>>)>>

\* a response generated from a template on which set_body was never called
C3_WitnessNoBody ==
    /\ lastCall.op = "generate_response"
    /\ body_arg = <<>>
    /\ response[1].body = <<>>
    /\ DOMAIN OldHeaders # {}

\* C4: generate_response leaves the template as it was, and a second call
\* with no builder call in between returns an equal response.
C4_Repeatable ==
    lastCall.op = "generate_response" =>
        /\ Self = old.self
        /\ (n_gen >= 2 => response = old.response)

\* two calls in a row on a template with two headers and a body
C4_Witness ==
    /\ lastCall.op = "generate_response"
    /\ n_gen = 2
    /\ Cardinality(DOMAIN headers) = 2
    /\ body # <<>>
    /\ Len(old.response) = 1

\* C5: the stored body is the bytes of the argument of the most recent
\* set_body call, whatever was stored before.
C5_LastWriteWins ==
    (pc = "built" /\ body_arg # <<>>) =>
        body = <<VecU8TryFrom(body_arg[1]).val>>

\* a second set_body with a different argument, then a header call
C5_Witness ==
    /\ pc = "built"
    /\ lastCall.op \in HeaderOps
    /\ body = <<(<<195, 169>>)>>
    /\ body_arg = <<[kind |-> "str", data |-> <<233>>]>>
    /\ calls >= 3

\* whether the last call is a builder call given an input its conversion rejects
FailedConversion ==
    CASE lastCall.op = "new" ->
            IF StatusCodeTryFrom(lastCall.status).ok THEN "none" ELSE "status code"
      [] lastCall.op \in HeaderOps ->
            IF ~HeaderNameTryFrom(lastCall.key).ok THEN "header name"
            ELSE IF ~HeaderValueTryFrom(lastCall.value).ok THEN "header value"
            ELSE "none"
      [] lastCall.op = "set_body" ->
            IF VecU8TryFrom(lastCall.body).ok THEN "none" ELSE "body"
      [] OTHER -> "none"

\* C6: a call whose conversion fails panics; new then yields no template,
\* and a builder call leaves status, header map and body as they were; no
\* response is generated afterwards.
C6_FailureAborts ==
    /\ FailedConversion # "none" =>
          /\ pc = "panicked"
          /\ Self = old.self
          /\ (lastCall.op = "new" => Self = NoTemplate)
    /\ pc = "panicked" =>
          /\ FailedConversion # "none"
          /\ response = <<>>
          /\ ~ENABLED GenerateResponse

\* a header call with a valid name and an invalid value, on a template that
\* already has headers and a body
C6_Witness ==
    /\ pc = "panicked"
    /\ FailedConversion = "header value"
    /\ DOMAIN headers # {}
    /\ body # <<>>

\* new(999) panicked
C6_WitnessNew ==
    /\ pc = "panicked"
    /\ lastCall.op = "new"
    /\ lastCall.status = 999

\* the input whose conversion failed, as the panic message would print it
OffendingInput ==
    CASE FailedConversion = "status code"  -> ToString(lastCall.status)
      [] FailedConversion = "header name"  -> ToString(lastCall.key)
      [] FailedConversion = "header value" -> ToString(lastCall.value)
      [] OTHER                             -> ToString(lastCall.body)

ExpectText ==
    CASE FailedConversion = "status code"  -> "Failed to convert into status code."
      [] FailedConversion = "header name"  -> "Failed to convert into header name."
      [] FailedConversion = "header value" -> "Failed to convert into header value."
      [] OTHER                             -> "Failed to convert into body."

ConversionError ==
    CASE FailedConversion = "status code"  -> StatusCodeTryFrom(lastCall.status).err
      [] FailedConversion = "header name"  -> HeaderNameTryFrom(lastCall.key).err
      [] FailedConversion = "header value" -> HeaderValueTryFrom(lastCall.value).err
      [] OTHER                             -> VecU8TryFrom(lastCall.body).err

\* C7 as stated: the panic message names the failed conversion and includes
\* the offending input.
C7_Original ==
    pc = "panicked" =>
        /\ panic_msg[1] = ExpectText
        /\ \E i \in DOMAIN panic_msg : panic_msg[i] = OffendingInput

\* C7 amended: the panic message is the fixed text naming the failed
\* conversion followed by the Debug text of the conversion's error, and
\* nothing else.
C7_Amended ==
    pc = "panicked" => panic_msg = <<ExpectText, ConversionError>>

\* an insert_header panicked on its value
C7_Witness ==
    /\ pc = "panicked"
    /\ FailedConversion = "header value"
    /\ lastCall.op = "insert_header"

\* C8: every key of the header map maps to a non-empty list.
C8_NonEmptyLists ==
    \A k \in DOMAIN headers : Len(headers[k]) >= 1

\* a map with two keys after an insert over an existing key
C8_Witness ==
    /\ pc = "built"
    /\ lastCall.op = "insert_header"
    /\ CallName \in DOMAIN OldHeaders
    /\ Cardinality(DOMAIN headers) = 2

\* C9: a header call with a name that differs only in case from a key of the
\* map works on that key's list, and the map never holds two keys that
\* differ only in case.
C9_CaseInsensitive ==
    /\ \A k1, k2 \in DOMAIN headers :
          to_ascii_lowercase(k1) = to_ascii_lowercase(k2) => k1 = k2
    /\ (lastCall.op \in HeaderOps /\ pc = "built") =>
          \A k \in DOMAIN OldHeaders :
              to_ascii_lowercase(k) = to_ascii_lowercase(lastCall.key) =>
                  /\ DOMAIN headers = DOMAIN OldHeaders
                  /\ headers[k] = IF lastCall.op = "append_header"
                                  THEN OldHeaders[k] \o <<lastCall.value>>
                                  ELSE <<lastCall.value>>

\* an append given "A" while the map holds the key "a"
C9_Witness ==
    /\ pc = "built"
    /\ lastCall.op = "append_header"
    /\ lastCall.key = <<65>>
    /\ <<97>> \in DOMAIN OldHeaders
    /\ Len(headers[<<97>>]) = 2

\* C10: new(s) yields status s, no headers and no body; header calls leave
\* status and body alone, set_body leaves status and headers alone; the
\* status of a template is always the one given to new.
C10_Frame ==
    pc = "built" =>
        /\ StatusCodeAsU16(status_code) = status_arg[1]
        /\ lastCall.op = "new" => (headers = <<>> /\ body = <<>>)
        /\ lastCall.op \in HeaderOps =>
              (status_code = old.self.status_code /\ body = old.self.body)
        /\ lastCall.op = "set_body" =>
              (status_code = old.self.status_code /\ headers = old.self.headers)

\* a set_body on a 404 template with headers, at the end of the chain
C10_Witness ==
    /\ pc = "built"
    /\ lastCall.op = "set_body"
    /\ status_arg = <<404>>
    /\ Cardinality(DOMAIN headers) = 2
    /\ calls = MaxCalls

====
